---- MODULE Spec2Model ----
(***************************************************************************)
(* Model of the MCP tool servers of this repository:                       *)
(*   "multi"  - MultiServer       (src/src/index.ts)                       *)
(*   "memory" - MemoryStore       (src/src/memory-store.ts), the server    *)
(*              that module starts for itself                              *)
(*   "web"    - WebContentServer  (src/build/index.js)                     *)
(* Every call-tool / list-tools handler is an async function: the code     *)
(* between two awaits runs atomically, and other requests interleave at    *)
(* the awaits.  Each action below is one such atomic piece.  The external  *)
(* collaborators (puppeteer, axios) succeed or fail nondeterministically.  *)
(***************************************************************************)
EXTENDS Integers, Sequences, FiniteSets, Bags, TLC

(* ------------------------------ bounds --------------------------------- *)
\* requests received over a run; all of them may be in flight together
MaxReq == 2

(* --------------------------- value universe ---------------------------- *)
\* the JavaScript value undefined (an absent property)
Undef == "<undefined>"
\* a property value that is not a string (a number)
NotAString == "<number>"

Keys == {"k1", "k2"}
Values == {"", "a"}
Urls == {"http://u"}
Selectors == {"h1"}
Queries == {"test"}

BrowserServers == {"multi", "memory"}
Servers == {"multi", "memory", "web"}

\* a test for undefined alone: value === undefined
FalsyUndefinedOnly(x) == x = Undef

\* JavaScript truthiness of a string-or-undefined property: !x
Falsy(x) == x = Undef \/ x = ""

\* request.params.arguments; defined = FALSE is an absent arguments object
NoArgs ==
  [defined |-> FALSE, operation |-> Undef, key |-> Undef, value |-> Undef,
   url |-> Undef, selector |-> Undef, query |-> Undef]

EmptyArgs == [NoArgs EXCEPT !.defined = TRUE]

MemoryArgs ==
  {[EmptyArgs EXCEPT !.operation = op, !.key = k, !.value = v] :
     op \in {"set"}, k \in Keys, v \in Values \cup {Undef}}
  \cup {[EmptyArgs EXCEPT !.operation = op, !.key = k] :
     op \in {"get", "delete"}, k \in Keys}
  \cup {[EmptyArgs EXCEPT !.operation = op, !.key = k] :
     op \in {"purge", Undef}, k \in {"k1"}}

UrlArgs ==
  {[EmptyArgs EXCEPT !.url = u, !.selector = s] :
     u \in Urls, s \in Selectors \cup {Undef}}
  \cup {EmptyArgs}

QueryArgs ==
  {[EmptyArgs EXCEPT !.query = q] : q \in Queries \cup {Undef, NotAString}}

(* -------------------------- tool descriptors --------------------------- *)
FetchTool == [name |-> "fetch_web_content", required |-> <<"url">>]
MemoryTool == [name |-> "memory_store", required |-> <<"operation", "key">>]
ScreenshotTool == [name |-> "puppeteer_screenshot", required |-> <<"url">>]
SearchTool == [name |-> "search_web", required |-> <<"query">>]

\* a catalogue that also advertises search_web
MultiToolListWithSearch == <<FetchTool, MemoryTool, ScreenshotTool, SearchTool>>

\* the tools: [...] literal each server's ListTools handler returns
MultiToolList == <<FetchTool, MemoryTool, ScreenshotTool>>
MemoryToolList == <<SearchTool>>
WebToolList == <<FetchTool>>

ToolList(s) ==
  CASE s = "multi" -> MultiToolList
    [] s = "memory" -> MemoryToolList
    [] OTHER -> WebToolList

\* the four tool names of the specification's catalogue
SupportedNames ==
  {"fetch_web_content", "memory_store", "puppeteer_screenshot", "search_web"}
\* names outside the catalogue
OtherNames == {"no_such_tool", "Memory_Store"}
ToolNames == SupportedNames \cup OtherNames

(* ------------------------------ responses ------------------------------ *)
NoOut ==
  [kind |-> "none", code |-> "none", msg |-> <<>>, text |-> <<>>, tools |-> <<>>]

\* return { content: [{ type: "text", text }] }; text is kept as its pieces
Content(text) == [NoOut EXCEPT !.kind = "content", !.text = text]
\* return { tools: [...] }
Tools(list) == [NoOut EXCEPT !.kind = "tools", !.tools = list]
\* throw new McpError(code, message)
McpError(code, msg) == [NoOut EXCEPT !.kind = "McpError", !.code = code, !.msg = msg]
\* an exception that is not an McpError leaving the handler (Error, TypeError)
RawError(msg) == [NoOut EXCEPT !.kind = "Error", !.msg = msg]

\* destructuring an undefined arguments object
DestructureError == RawError(<<"Cannot destructure property of undefined">>)

(* ------------------------------- state --------------------------------- *)
VARIABLES
  store,        \* MultiServer.memoryStore.store : Map<string,string>
  browser,      \* this.browser of each server; 0 is null, else an engine id
  engines,      \* the engines puppeteer.launch has started, in order
  launches,     \* calls of puppeteer.launch so far, per server
  openPages,    \* pages opened by newPage and not closed
  reqs,         \* the requests in flight: a bag of request records
  issued,       \* requests received so far
  lastSet,      \* history: the last set/delete invocation per key
  exited        \* process.exit has been called

vars ==
  <<store, browser, engines, launches, openPages, reqs, issued, lastSet, exited>>

Absent == "<absent>"

Idle ==
  [server |-> "none", method |-> "none", name |-> "none", args |-> NoArgs,
   pc |-> "idle", engine |-> 0, page |-> 0, out |-> NoOut]

NewCall(s, name, args) ==
  [Idle EXCEPT !.server = s, !.method = "tools/call", !.name = name, !.args = args,
               !.pc = "received"]

NewList(s) == [Idle EXCEPT !.server = s, !.method = "tools/list", !.pc = "received"]

Init ==
  /\ store = [k \in Keys |-> Absent]
  /\ browser = [s \in BrowserServers |-> 0]
  /\ engines = <<>>
  /\ launches = [s \in BrowserServers |-> 0]
  /\ openPages = {}
  /\ reqs = EmptyBag
  /\ issued = 0
  /\ lastSet = [k \in Keys |-> Absent]
  /\ exited = FALSE

InFlight == BagToSet(reqs)

\* one more request can be received from the transport
CanReceive == issued < MaxReq /\ ~exited

\* the handler of a request just received runs to its first await, or to its end
Begin(q) == /\ issued' = issued + 1
            /\ reqs' = reqs (+) SetToBag({q})

\* the handler of request q goes on as q2
Step(q, q2) == reqs' = (reqs (-) SetToBag({q})) (+) SetToBag({q2})

\* the handler ends with outcome out
Done(q, out) == [q EXCEPT !.pc = "done", !.out = out]

\* the handler suspends at an await
At(q, pc) == [q EXCEPT !.pc = pc]

(* ----------------------- ListTools handlers ---------------------------- *)
\* index.ts:48, memory-store.ts:55, build/index.js:23
ListTools(s) ==
  /\ CanReceive
  /\ Begin(Done(NewList(s), Tools(ToolList(s))))
  /\ UNCHANGED <<store, browser, engines, launches, openPages, lastSet, exited>>

(* ----------------------- CallTool dispatch ----------------------------- *)
UnknownTool(name) == McpError("MethodNotFound", <<"Unknown tool: ", name>>)

\* a switch whose default case falls into the memory_store handler
MultiRouteNoDefault(name) ==
  CASE name = "fetch_web_content" -> "handleFetchWebContent"
    [] name = "puppeteer_screenshot" -> "handlePuppeteerScreenshot"
    [] OTHER -> "handleMemoryStore"

\* the switch of MultiServer's CallTool handler
MultiRoute(name) ==
  CASE name = "fetch_web_content" -> "handleFetchWebContent"
    [] name = "memory_store" -> "handleMemoryStore"
    [] name = "puppeteer_screenshot" -> "handlePuppeteerScreenshot"
    [] OTHER -> "MethodNotFound"

\* the name test of MemoryStore's CallTool handler
MemoryRoute(name) ==
  IF name # "search_web" THEN "MethodNotFound" ELSE "search_web"

\* the name test of WebContentServer's CallTool handler
WebRoute(name) ==
  IF name # "fetch_web_content" THEN "MethodNotFound" ELSE "handleFetchWebContent"

Route(s, name) ==
  CASE s = "multi" -> MultiRoute(name)
    [] s = "memory" -> MemoryRoute(name)
    [] OTHER -> WebRoute(name)

\* a call whose name the server's dispatcher does not know
CallUnknownTool(s, name, args) ==
  /\ CanReceive
  /\ Route(s, name) = "MethodNotFound"
  /\ Begin(Done(NewCall(s, name, args), UnknownTool(name)))
  /\ UNCHANGED <<store, browser, engines, launches, openPages, lastSet, exited>>

(* ----------------------- catch blocks ---------------------------------- *)
\* catch (error) { throw new McpError(ErrorCode.InternalError, prefix + message) }
Catch(prefix, out) ==
  IF out.kind \in {"McpError", "Error"}
  THEN McpError("InternalError", <<prefix>> \o out.msg)
  ELSE out

(* ----------------------- memory_store ---------------------------------- *)
\* the body of the try block of handleMemoryStore: the outcome and the store
MemoryStoreSwitch(st, args) ==
  CASE args.operation = "set" ->
         IF Falsy(args.value)
         THEN [out |-> McpError("InvalidParams", <<"Value is required for set operation">>),
               store |-> st]
         ELSE [out |-> Content(<<"Value stored for key: ", args.key>>),
               store |-> [st EXCEPT ![args.key] = args.value]]
    [] args.operation = "get" ->
         [out |-> Content(<<IF st[args.key] = Absent \/ Falsy(st[args.key])
                            THEN "" ELSE st[args.key]>>),
          store |-> st]
    [] args.operation = "delete" ->
         [out |-> Content(<<"Key deleted: ", args.key>>),
          store |-> [st EXCEPT ![args.key] = Absent]]
    [] OTHER ->
         [out |-> McpError("InvalidParams", <<"Invalid operation: ", args.operation>>),
          store |-> st]

\* a handler whose get raises for a key that is not in the store
MemoryStoreResultGetThrows(st, args) ==
  IF ~args.defined
  THEN [out |-> DestructureError, store |-> st]
  ELSE IF args.operation = "get" /\ st[args.key] = Absent
       THEN [out |-> Catch("Memory operation failed: ", RawError(<<"Key not found">>)),
             store |-> st]
       ELSE [out |-> Catch("Memory operation failed: ", MemoryStoreSwitch(st, args).out),
             store |-> MemoryStoreSwitch(st, args).store]

\* a handler whose set writes the store before it checks the value
MemoryStoreResultWritesFirst(st, args) ==
  IF ~args.defined
  THEN [out |-> DestructureError, store |-> st]
  ELSE [out |-> Catch("Memory operation failed: ", MemoryStoreSwitch(st, args).out),
        store |-> IF args.operation = "set"
                  THEN [st EXCEPT ![args.key] = args.value]
                  ELSE MemoryStoreSwitch(st, args).store]

\* handleMemoryStore: no await, so the whole handler is one step
MemoryStoreResult(st, args) ==
  IF ~args.defined
  THEN [out |-> DestructureError, store |-> st]
  ELSE [out |-> Catch("Memory operation failed: ", MemoryStoreSwitch(st, args).out),
        store |-> MemoryStoreSwitch(st, args).store]

\* the history of set(k, v) and delete(k) invocations, whatever their outcome
RecordInvocation(h, args) ==
  IF args.defined /\ args.operation = "set" /\ args.value # Undef
  THEN [h EXCEPT ![args.key] = args.value]
  ELSE IF args.defined /\ args.operation = "delete"
       THEN [h EXCEPT ![args.key] = Absent]
       ELSE h

HandleMemoryStore(s, name, args) ==
  /\ CanReceive
  /\ Route(s, name) = "handleMemoryStore"
  /\ store' = MemoryStoreResult(store, args).store
  /\ lastSet' = RecordInvocation(lastSet, args)
  /\ Begin(Done(NewCall(s, name, args), MemoryStoreResult(store, args).out))
  /\ UNCHANGED <<browser, engines, launches, openPages, exited>>

(* ----------------------- fetch_web_content ----------------------------- *)
\* handleFetchWebContent up to axios.get (index.ts:131-137, build/index.js:50-53)
HandleFetchWebContent(s, name, args) ==
  /\ CanReceive
  /\ Route(s, name) = "handleFetchWebContent"
  /\ IF ~args.defined
     THEN Begin(Done(NewCall(s, name, args), DestructureError))
     ELSE Begin(At(NewCall(s, name, args), "axios.get"))
  /\ UNCHANGED <<store, browser, engines, launches, openPages, lastSet, exited>>

\* axios.get settles; cheerio extracts the text
FetchSettled(q, ok) ==
  /\ q.pc = "axios.get"
  /\ ok => q.args.url # Undef
  /\ Step(q, Done(q, IF ok THEN Content(<<"page text">>)
                     ELSE Catch("Failed to fetch web content: ",
                                RawError(<<"request failed">>))))
  /\ UNCHANGED <<store, browser, engines, launches, openPages, issued, lastSet, exited>>

(* ----------------------- browser collaborator -------------------------- *)
\* puppeteer.launch(options) resolved: one more engine
Launched(s, sandboxOff) ==
  Append(engines, [owner |-> s, sandboxOff |-> sandboxOff, open |-> TRUE])

\* the identity of the page the next newPage() returns
NewPageId ==
  CHOOSE n \in 1..(MaxReq + 1) :
    /\ n \notin {p.id : p \in openPages} \cup {q.page : q \in InFlight}
    /\ \A m \in 1..(n - 1) :
         m \in {p.id : p \in openPages} \cup {q.page : q \in InFlight}

\* browser.newPage() resolved: one more open page on engine e
PageOpened(e) == openPages \cup {[id |-> NewPageId, engine |-> e]}

\* page.close() resolved
PageClosed(id) == {p \in openPages : p.id # id}

\* the frame of a step that touches neither the store nor the engines
BrowserFrame == UNCHANGED <<store, browser, engines, launches, issued, lastSet, exited>>

(* ----------------------- puppeteer_screenshot -------------------------- *)
ScreenshotCatch(out) == Catch("Puppeteer operation failed: ", out)

\* index.ts:219-229: up to the first await (launch, or newPage when a browser is set)
HandlePuppeteerScreenshot(s, name, args) ==
  /\ CanReceive
  /\ Route(s, name) = "handlePuppeteerScreenshot"
  /\ IF ~args.defined
     THEN /\ Begin(Done(NewCall(s, name, args), DestructureError))
          /\ UNCHANGED launches
     ELSE IF browser[s] = 0
          THEN /\ launches' = [launches EXCEPT ![s] = @ + 1]
               /\ Begin(At(NewCall(s, name, args), "launch"))
          ELSE /\ Begin(At([NewCall(s, name, args) EXCEPT !.engine = browser[s]],
                           "newPage"))
               /\ UNCHANGED launches
  /\ UNCHANGED <<store, browser, engines, openPages, lastSet, exited>>

\* a setupPuppeteer that stores a handle although the launch was rejected
SetupPuppeteerKeepsHandle(q, ok) ==
  /\ q.pc = "launch" /\ q.server = "multi"
  /\ IF ok
     THEN /\ engines' = Launched("multi", TRUE)
          /\ browser' = [browser EXCEPT !["multi"] = Len(engines')]
          /\ Step(q, At(q, "setupPuppeteer"))
     ELSE /\ Step(q, Done(q, RawError(<<"Failed to launch the browser process">>)))
          /\ browser' = [browser EXCEPT !["multi"] = Len(engines) + 1]
          /\ UNCHANGED engines
  /\ UNCHANGED <<store, launches, openPages, issued, lastSet, exited>>

\* index.ts:39-44: setupPuppeteer resumes after puppeteer.launch settles
SetupPuppeteer(q, ok) ==
  /\ q.pc = "launch" /\ q.server = "multi"
  /\ IF ok
     THEN /\ engines' = Launched("multi", TRUE)
          /\ browser' = [browser EXCEPT !["multi"] = Len(engines')]
          /\ Step(q, At(q, "setupPuppeteer"))
     ELSE /\ Step(q, Done(q, RawError(<<"Failed to launch the browser process">>)))
          /\ UNCHANGED <<engines, browser>>
  /\ UNCHANGED <<store, launches, openPages, issued, lastSet, exited>>

\* index.ts:225-229: the handler resumes after setupPuppeteer and calls newPage
ScreenshotAfterSetup(q) ==
  /\ q.pc = "setupPuppeteer"
  /\ Step(q, At([q EXCEPT !.engine = browser[q.server]], "newPage"))
  /\ UNCHANGED openPages
  /\ BrowserFrame

\* index.ts:229-230: newPage settles; page.goto(url) is called
ScreenshotNewPage(q, ok) ==
  /\ q.pc = "newPage" /\ q.server = "multi"
  /\ IF ok
     THEN /\ openPages' = PageOpened(q.engine)
          /\ Step(q, At([q EXCEPT !.page = NewPageId], "goto"))
     ELSE /\ Step(q, Done(q, ScreenshotCatch(RawError(<<"newPage failed">>))))
          /\ UNCHANGED openPages
  /\ BrowserFrame

\* index.ts:230-240: goto settles; page.$(selector) or screenshot is called
ScreenshotGoto(q, ok) ==
  /\ q.pc = "goto" /\ q.server = "multi"
  /\ ok => q.args.url # Undef
  /\ IF ok
     THEN IF ~Falsy(q.args.selector)
          THEN Step(q, At(q, "page.$"))
          ELSE Step(q, At(q, "screenshot"))
     ELSE Step(q, Done(q, ScreenshotCatch(RawError(<<"navigation failed">>))))
  /\ UNCHANGED openPages
  /\ BrowserFrame

\* index.ts:236: throw new Error(`Element with selector ${selector} not found`)
ElementNotFoundError(selector) ==
  RawError(<<"Element with selector ", selector, " not found">>)

\* index.ts:234-240: page.$ settles with an element, with null, or it rejects
ScreenshotQuery(q, found) ==
  /\ q.pc = "page.$"
  /\ CASE found = "element" -> Step(q, At(q, "screenshot"))
       [] found = "null" ->
            Step(q, Done(q, ScreenshotCatch(ElementNotFoundError(q.args.selector))))
       [] OTHER -> Step(q, Done(q, ScreenshotCatch(RawError(<<"query failed">>))))
  /\ UNCHANGED openPages
  /\ BrowserFrame

\* index.ts:240-244: screenshot settles; page.close() is called
ScreenshotCapture(q, ok) ==
  /\ q.pc = "screenshot"
  /\ IF ok
     THEN Step(q, At(q, "close"))
     ELSE Step(q, Done(q, ScreenshotCatch(RawError(<<"screenshot failed">>))))
  /\ UNCHANGED openPages
  /\ BrowserFrame

\* index.ts:244-253: close settles; the base64 text is returned
ScreenshotClose(q, ok) ==
  /\ q.pc = "close" /\ q.server = "multi"
  /\ IF ok
     THEN /\ openPages' = PageClosed(q.page)
          /\ Step(q, Done(q, Content(<<"base64">>)))
     ELSE /\ Step(q, Done(q, ScreenshotCatch(RawError(<<"close failed">>))))
          /\ UNCHANGED openPages
  /\ BrowserFrame

(* ----------------------- search_web ------------------------------------ *)
\* memory-store.ts:93-114: the two argument checks, made after newPage
SearchArgsError(args) ==
  IF ~args.defined
  THEN McpError("InvalidParams", <<"Invalid arguments provided">>)
  ELSE IF args.query = Undef \/ args.query = NotAString
       THEN McpError("InvalidParams",
                     <<"Query parameter is required and must be a string">>)
       ELSE NoOut

\* memory-store.ts:77-90: up to the first await (launch, or newPage)
HandleSearchWeb(s, name, args) ==
  /\ CanReceive
  /\ Route(s, name) = "search_web"
  /\ IF browser[s] = 0
     THEN /\ launches' = [launches EXCEPT ![s] = @ + 1]
          /\ Begin(At(NewCall(s, name, args), "launch"))
     ELSE /\ Begin(At([NewCall(s, name, args) EXCEPT !.engine = browser[s]], "newPage"))
          /\ UNCHANGED launches
  /\ UNCHANGED <<store, browser, engines, openPages, lastSet, exited>>

\* memory-store.ts:86-90: launch settles; this.browser is set and newPage called
SearchLaunch(q, ok) ==
  /\ q.pc = "launch" /\ q.server = "memory"
  /\ IF ok
     THEN /\ engines' = Launched("memory", FALSE)
          /\ browser' = [browser EXCEPT !["memory"] = Len(engines')]
          /\ Step(q, At([q EXCEPT !.engine = Len(engines')], "newPage"))
     ELSE /\ Step(q, Done(q, RawError(<<"Failed to launch the browser process">>)))
          /\ UNCHANGED <<engines, browser>>
  /\ UNCHANGED <<store, launches, openPages, issued, lastSet, exited>>

\* memory-store.ts:90-119: newPage settles; arguments are checked; goto is called
SearchNewPage(q, ok) ==
  /\ q.pc = "newPage" /\ q.server = "memory"
  /\ IF ok
     THEN /\ openPages' = PageOpened(q.engine)
          /\ IF SearchArgsError(q.args) # NoOut
             THEN Step(q, Done([q EXCEPT !.page = NewPageId], SearchArgsError(q.args)))
             ELSE Step(q, At([q EXCEPT !.page = NewPageId], "goto"))
     ELSE /\ Step(q, Done(q, RawError(<<"newPage failed">>)))
          /\ UNCHANGED openPages
  /\ BrowserFrame

\* memory-store.ts:117-127: goto settles; page.evaluate is called
SearchGoto(q, ok) ==
  /\ q.pc = "goto" /\ q.server = "memory"
  /\ IF ok
     THEN Step(q, At(q, "evaluate"))
     ELSE Step(q, Done(q, RawError(<<"navigation failed">>)))
  /\ UNCHANGED openPages
  /\ BrowserFrame

\* memory-store.ts:122-130: evaluate settles; page.close() is called
SearchEvaluate(q, ok) ==
  /\ q.pc = "evaluate"
  /\ IF ok
     THEN Step(q, At(q, "close"))
     ELSE Step(q, Done(q, RawError(<<"evaluate failed">>)))
  /\ UNCHANGED openPages
  /\ BrowserFrame

\* memory-store.ts:130-140: close settles; the results are returned as JSON
SearchClose(q, ok) ==
  /\ q.pc = "close" /\ q.server = "memory"
  /\ IF ok
     THEN /\ openPages' = PageClosed(q.page)
          /\ Step(q, Done(q, Content(<<"[results]">>)))
     ELSE /\ Step(q, Done(q, RawError(<<"close failed">>)))
          /\ UNCHANGED openPages
  /\ BrowserFrame

(* ----------------------- transport ------------------------------------- *)
\* the response (or the error) of a finished handler is sent
Respond(q) ==
  /\ q.pc = "done"
  /\ reqs' = reqs (-) SetToBag({q})
  /\ UNCHANGED <<store, browser, engines, launches, openPages, issued, lastSet, exited>>

\* arguments a client sends with a call of tool name: valid ones for that tool
ValidSample(name) ==
  CASE name = "memory_store" -> [EmptyArgs EXCEPT !.operation = "get", !.key = "k1"]
    [] name = "search_web" -> [EmptyArgs EXCEPT !.query = "test"]
    [] name \in {"fetch_web_content", "puppeteer_screenshot"} ->
         [EmptyArgs EXCEPT !.url = "http://u"]
    [] OTHER -> EmptyArgs

(* ----------------------- process termination --------------------------- *)
\* memory-store.ts:47-50: the SIGINT handler closes the MCP server and calls
\* process.exit(0); no line of it touches this.browser.  The handlers in
\* flight end with the process; the engines are left as they are.
Sigint ==
  /\ ~exited
  /\ exited' = TRUE
  /\ reqs' = EmptyBag
  /\ UNCHANGED <<store, browser, engines, launches, openPages, issued, lastSet>>

Next ==
  \/ Sigint
  \/ \E s \in Servers : ListTools(s)
  \/ \E s \in Servers, name \in ToolNames : CallUnknownTool(s, name, ValidSample(name))
  \/ \E s \in Servers, name \in ToolNames, args \in MemoryArgs \cup {NoArgs} :
       HandleMemoryStore(s, name, args)
  \/ \E s \in Servers, name \in ToolNames, args \in UrlArgs \cup {NoArgs} :
       HandleFetchWebContent(s, name, args)
  \/ \E s \in Servers, name \in ToolNames, args \in UrlArgs \cup {NoArgs} :
       HandlePuppeteerScreenshot(s, name, args)
  \/ \E s \in Servers, name \in ToolNames, args \in QueryArgs \cup {NoArgs} :
       HandleSearchWeb(s, name, args)
  \/ \E q \in InFlight, ok \in BOOLEAN : FetchSettled(q, ok)
  \/ \E q \in InFlight, ok \in BOOLEAN : SetupPuppeteer(q, ok)
  \/ \E q \in InFlight : ScreenshotAfterSetup(q)
  \/ \E q \in InFlight, ok \in BOOLEAN : ScreenshotNewPage(q, ok)
  \/ \E q \in InFlight, ok \in BOOLEAN : ScreenshotGoto(q, ok)
  \/ \E q \in InFlight, found \in {"element", "null", "rejects"} :
       ScreenshotQuery(q, found)
  \/ \E q \in InFlight, ok \in BOOLEAN : ScreenshotCapture(q, ok)
  \/ \E q \in InFlight, ok \in BOOLEAN : ScreenshotClose(q, ok)
  \/ \E q \in InFlight, ok \in BOOLEAN : SearchLaunch(q, ok)
  \/ \E q \in InFlight, ok \in BOOLEAN : SearchNewPage(q, ok)
  \/ \E q \in InFlight, ok \in BOOLEAN : SearchGoto(q, ok)
  \/ \E q \in InFlight, ok \in BOOLEAN : SearchEvaluate(q, ok)
  \/ \E q \in InFlight, ok \in BOOLEAN : SearchClose(q, ok)
  \/ \E q \in InFlight : Respond(q)

Spec == Init /\ [][Next]_vars

(* ======================= properties ==================================== *)
\* the finished handlers whose response has not been sent yet
Finished == {q \in InFlight : q.pc = "done"}

\* the request received by the step, when the step receives q
Received(q) == issued' = issued + 1 /\ reqs' = reqs (+) SetToBag({q})

\* handlers of server s suspended in puppeteer.launch
LaunchesInFlight(s) ==
  BagCardinality([q \in {x \in InFlight : x.pc = "launch" /\ x.server = s}
                    |-> CopiesIn(q, reqs)])

\* engines server s has started
EnginesOf(s) == {i \in 1..Len(engines) : engines[i].owner = s}

\* what memory_store(get, k) answers on store st
GetText(st, k) ==
  MemoryStoreResult(st, [EmptyArgs EXCEPT !.operation = "get", !.key = k]).out.text

\* the failure messages of the collaborators (puppeteer, axios)
CollaboratorFailures ==
  {"request failed", "Failed to launch the browser process", "newPage failed",
   "navigation failed", "query failed", "screenshot failed", "evaluate failed",
   "close failed"}

CollaboratorFailed(out) ==
  out.msg # <<>> /\ out.msg[Len(out.msg)] \in CollaboratorFailures

\* page.$(selector) found no element
SelectorMissed(out) == out.msg # <<>> /\ out.msg[Len(out.msg)] = " not found"

\* arguments that satisfy the tool's input schema
ValidArgs(name, args) ==
  /\ args.defined
  /\ CASE name = "memory_store" ->
            /\ args.operation \in {"set", "get", "delete"}
            /\ args.key \in Keys
            /\ args.operation = "set" => args.value \in Values \ {""}
       [] name = "search_web" -> args.query \in Queries
       [] OTHER -> args.url \in Urls

Taxonomy == {"MethodNotFound", "InvalidParams", "ElementNotFound", "InternalError"}

\* C1: while the browser session of a server is uninitialized, concurrent
\* browser-dependent invocations launch the engine exactly once: a launch is
\* never started while another launch of that server is in flight or while
\* that server already has an engine.
C1_SingleLaunch ==
  \A s \in BrowserServers : LaunchesInFlight(s) + Cardinality(EnginesOf(s)) <= 1

\* C2: every page an invocation opened is closed before the invocation
\* returns its response, on success and on failure; with no invocation in
\* flight there is no open page.
C2_PagesClosed ==
  /\ \A q \in Finished : \A p \in openPages : p.id # q.page
  /\ reqs = EmptyBag => openPages = {}

\* C3: memory_store(get, k) returns the value of the most recent
\* memory_store(set, k, v) if no delete(k) followed it, and the empty result
\* if k was never set or was deleted since.
C3_LastWriteWins ==
  \A k \in Keys :
    GetText(store, k) = <<IF lastSet[k] = Absent THEN "" ELSE lastSet[k]>>

\* C4: memory_store with operation set, a key and no value answers an error
\* whose code is InvalidParams.
C4_SetWithoutValue ==
  \A q \in Finished :
    (/\ q.name = "memory_store" /\ q.server = "multi"
     /\ q.args.defined /\ q.args.operation = "set" /\ q.args.value = Undef)
    => q.out.kind = "McpError" /\ q.out.code = "InvalidParams"

\* C5: memory_store with an operation outside set, get, delete answers an
\* error whose code is InvalidParams.
C5_UnknownOperation ==
  \A q \in Finished :
    (/\ q.name = "memory_store" /\ q.server = "multi"
     /\ q.args.defined /\ q.args.operation \notin {"set", "get", "delete"})
    => q.out.kind = "McpError" /\ q.out.code = "InvalidParams"

\* C6: a call whose tool name is not exactly one of the supported names is
\* answered with MethodNotFound, the message carrying the name, in the step
\* that receives it, and that step changes neither the store nor the browser
\* sessions, starts no engine and opens no page.
C6_UnknownToolRejected ==
  [][\A q \in BagToSet(reqs') :
       (Received(q) /\ q.method = "tools/call" /\ q.name \notin SupportedNames)
       => /\ q.pc = "done"
          /\ q.out.kind = "McpError" /\ q.out.code = "MethodNotFound"
          /\ \E i \in 1..Len(q.out.msg) : q.out.msg[i] = q.name
          /\ UNCHANGED <<store, browser, engines, launches, openPages>>]_vars

\* C6 witness: a call with an unsupported name has been answered
C6_Witness ==
  \E q \in Finished :
    /\ q.name \in OtherNames
    /\ q.out.code = "MethodNotFound"
    /\ q.out.msg = <<"Unknown tool: ", q.name>>

\* C7: each of the four supported tool names, called through the dispatcher
\* (MultiServer's, the program's entry point) with valid arguments and with
\* its collaborators succeeding, is routed to its handler and answers success
\* content, never MethodNotFound.
C7_SupportedToolsSucceed ==
  \A q \in Finished :
    (/\ q.server = "multi"
     /\ q.method = "tools/call" /\ q.name \in SupportedNames
     /\ ValidArgs(q.name, q.args)
     /\ ~CollaboratorFailed(q.out) /\ ~SelectorMissed(q.out))
    => q.out.kind = "content"

\* C8: a list-tools request returns the fixed ordered sequence of the four
\* tool descriptors.
C8_ListsFourTools ==
  \A q \in Finished :
    q.method = "tools/list"
    => /\ Len(q.out.tools) = 4
       /\ {q.out.tools[i].name : i \in 1..Len(q.out.tools)} = SupportedNames

\* C9: every invocation that fails ends in a typed error of the taxonomy;
\* no failure leaves the call-tool handler as an untyped exception.
C9_FailuresTyped ==
  \A q \in Finished :
    q.out.kind \notin {"content", "tools"}
    => q.out.kind = "McpError" /\ q.out.code \in Taxonomy

\* C10: puppeteer_screenshot with a selector that matches no element fails
\* with the error kind ElementNotFound, which differs from the kind of a
\* navigation or engine failure.
C10_ElementNotFound ==
  \A q \in Finished :
    (q.name = "puppeteer_screenshot" /\ SelectorMissed(q.out))
    => q.out.code = "ElementNotFound"

\* the required arguments of the tool are present and are strings
RequiredPresent(name, args) ==
  /\ args.defined
  /\ CASE name = "memory_store" -> args.operation # Undef /\ args.key # Undef
       [] name = "search_web" -> args.query \notin {Undef, NotAString}
       [] OTHER -> args.url # Undef

\* C11: once the browser session handle of a server is Ready it is never
\* reset to uninitialized and never replaced by another engine handle.
C11_HandleStable ==
  [][\A s \in BrowserServers : browser[s] # 0 => browser'[s] = browser[s]]_vars

\* C12: the process holds at most one live browser engine, and it is the one
\* every browser-dependent handler uses: the session handles of
\* puppeteer_screenshot and of search_web never name different engines, and
\* no two live engines belong to different handlers.
C12_OneSharedEngine ==
  /\ \A s, t \in BrowserServers :
       (browser[s] # 0 /\ browser[t] # 0) => browser[s] = browser[t]
  /\ \A i, j \in 1..Len(engines) :
       (engines[i].open /\ engines[j].open) => engines[i].owner = engines[j].owner

\* C13: when the termination signal arrives while the browser session is
\* Ready, the engine is closed before the process exits: the process never
\* has exited with a launched engine still open.
C13_EngineClosedAtExit ==
  exited => \A i \in 1..Len(engines) : ~engines[i].open

\* C15: every engine launch is made with sandboxing disabled
\* (--no-sandbox, --disable-setuid-sandbox).
C15_SandboxDisabled ==
  \A i \in 1..Len(engines) : engines[i].sandboxOff

\* C16: a call whose required argument is missing or of the wrong type is
\* rejected before any collaborator is touched: its handler ends in the step
\* that receives it, so it never waits on a fetch, a launch or a page, and
\* never holds an engine or a page.
C16_ValidatedBeforeUse ==
  \A q \in InFlight :
    (/\ q.method = "tools/call"
     /\ Route(q.server, q.name) # "MethodNotFound"
     /\ ~RequiredPresent(q.name, q.args))
    => q.pc = "done" /\ q.engine = 0 /\ q.page = 0

\* C14: memory_store get and delete are total: for a present or an absent
\* key they answer success content; get leaves the store as it was, and so
\* does delete of an absent key.
C14_GetDeleteTotal ==
  [][\A q \in BagToSet(reqs') :
       (/\ Received(q)
        /\ q.name = "memory_store" /\ q.server = "multi"
        /\ q.args.defined /\ q.args.operation \in {"get", "delete"})
       => /\ q.pc = "done" /\ q.out.kind = "content"
          /\ q.args.operation = "get" => store' = store
          /\ (q.args.operation = "delete" /\ store[q.args.key] = Absent)
               => store' = store
          /\ q.args.operation = "delete" => store'[q.args.key] = Absent]_vars

\* C14 witness: the first request of the run, a delete, was answered with
\* success content (its key was absent) and the store is still empty
C14_Witness ==
  /\ issued = 1
  /\ store = [k \in Keys |-> Absent]
  /\ \E q \in Finished :
       /\ q.name = "memory_store" /\ q.args.operation = "delete"
       /\ q.out = Content(<<"Key deleted: ", q.args.key>>)

\* C17: no key of the store maps to the empty string, because a set with the
\* empty string is rejected exactly like a set with no value; so an empty
\* result of memory_store(get, k) means that k is absent.
C17_NoEmptyValue ==
  /\ \A k \in Keys : store[k] # ""
  /\ \A k \in Keys : GetText(store, k) = <<"">> => store[k] = Absent
  /\ \A q \in Finished :
       (/\ q.name = "memory_store" /\ q.server = "multi"
        /\ q.args.defined /\ q.args.operation = "set" /\ q.args.value = "")
       => /\ q.out.kind = "McpError"
          /\ q.out = MemoryStoreResult(store, [q.args EXCEPT !.value = Undef]).out

\* C17 witness: a set with the empty string has been rejected
C17_Witness ==
  \E q \in Finished :
    /\ q.name = "memory_store" /\ q.args.operation = "set" /\ q.args.value = ""
    /\ q.out.kind = "McpError"
    /\ store[q.args.key] = Absent

\* C18: the store changes only in a step that receives a memory_store set or
\* delete answered with success; a step of any other kind (an invocation
\* ending in an error, a get, any other tool, list-tools) leaves it as it was.
C18_StoreFrame ==
  [][store' # store =>
       \E q \in BagToSet(reqs') :
         /\ Received(q)
         /\ q.name = "memory_store" /\ q.server = "multi"
         /\ q.args.operation \in {"set", "delete"}
         /\ q.pc = "done" /\ q.out.kind = "content"]_vars

\* C18 witness: a set answered with success has changed the store
C18_Witness ==
  \E q \in Finished :
    /\ q.name = "memory_store" /\ q.args.operation = "set"
    /\ q.out.kind = "content"
    /\ store[q.args.key] = q.args.value

\* the tool names the ListTools handler of server s advertises
Advertised(s) == {ToolList(s)[i].name : i \in 1..Len(ToolList(s))}

\* C19: on each server the advertised tool names are exactly the names the
\* call-tool dispatcher routes to a handler: a call of an advertised name is
\* never answered with MethodNotFound, a call of any other name always is.
C19_AdvertisedIsDispatched ==
  \A q \in InFlight :
    q.method = "tools/call"
    => (q.name \in Advertised(q.server)
        <=> ~(q.pc = "done" /\ q.out = UnknownTool(q.name)))

\* C19 witness: MultiServer has answered search_web, which it does not
\* advertise, with MethodNotFound, and an advertised tool with content
C19_Witness ==
  \E q1, q2 \in Finished :
    /\ q1.server = "multi" /\ q1.name = "search_web"
    /\ q1.out = UnknownTool("search_web")
    /\ q2.name \in Advertised(q2.server) /\ q2.out.kind = "content"

\* the step ends the handler q, suspended in puppeteer.launch, with outcome q2.out
LaunchSettledAs(q, q2) ==
  /\ q.pc = "launch" /\ q2.pc = "done"
  /\ q2 = Done(q, q2.out)
  /\ reqs' = (reqs (-) SetToBag({q})) (+) SetToBag({q2})

\* C20: a failed engine launch leaves the session handle as it was (never a
\* half-initialized value) and ends its invocation in an error; a handle that
\* is set names a started engine of that server; and a browser-dependent
\* invocation received while the handle is uninitialized launches again.
C20_LaunchFailure ==
  [][/\ \A q \in InFlight : \A q2 \in BagToSet(reqs') :
          LaunchSettledAs(q, q2)
          => /\ browser' = browser /\ engines' = engines
             /\ q2.out.kind \in {"McpError", "Error"}
     /\ \A s \in BrowserServers :
          browser'[s] # 0
          => /\ browser'[s] \in 1..Len(engines')
             /\ engines'[browser'[s]].owner = s
     /\ \A q \in BagToSet(reqs') :
          (/\ Received(q)
           /\ Route(q.server, q.name) \in {"handlePuppeteerScreenshot", "search_web"}
           /\ q.server = "multi" => q.args.defined
           /\ browser[q.server] = 0)
          => q.pc = "launch" /\ launches'[q.server] = launches[q.server] + 1]_vars

\* C20 witness: a launch of the server has failed, its handle is still
\* uninitialized, and another invocation is launching again
C20_Witness ==
  \E s \in BrowserServers :
    /\ browser[s] = 0 /\ launches[s] = 2 /\ engines = <<>>
    /\ \E q \in Finished :
         q.server = s /\ q.out = RawError(<<"Failed to launch the browser process">>)
    /\ \E q \in InFlight : q.server = s /\ q.pc = "launch"

====
